---- MODULE Spec2Model ----
(***************************************************************************)
(* Model of the virgo4-suggestor-ws suggestion pipeline: the /api/suggest  *)
(* handler, query validation, baseline retrieval from Solr, the            *)
(* mean + 2*stddev confidence filter, the AI provider call and the         *)
(* concurrent verification of the AI-proposed terms.                       *)
(*                                                                         *)
(* Scores are small integers and all statistics are exact rationals        *)
(* [num, den]; a rational with den = 0 stands for the float64 NaN that     *)
(* 0/0 produces.  Comparisons against the cutoff mean + 2*sqrt(variance)   *)
(* are carried out on squares, so no square root is needed.                *)
(***************************************************************************)
EXTENDS Integers, Sequences, FiniteSets, TLC

\* ---------------------------------------------------------------- bounds
MaxDocs == 2

MaxTerms == 2

MaxLimit == 2
\* Longest document list handed to the statistical filter on its own.
MaxFilterDocs == 6
\* Longest custom prompt template, in tokens.
MaxTemplateLen == 3

\* ------------------------------------------------------------- utilities
RECURSIVE SumSeq(_)
SumSeq(s) == IF s = <<>> THEN 0 ELSE Head(s) + SumSeq(Tail(s))

RECURSIVE SeqsUpTo(_, _)
SeqsUpTo(S, n) ==
  IF n = 0 THEN {<<>>}
  ELSE LET shorter == SeqsUpTo(S, n - 1)
       IN  shorter \cup {Append(s, x) : s \in {t \in shorter : Len(t) = n - 1}, x \in S}

Range(s) == {s[i] : i \in 1..Len(s)}

\* ------------------------------------------------------- request bodies
\* A request body either fails to bind to SuggestionRequest or carries a
\* raw query string.
BadBody == "<not json>"

RawQueries ==
  { "keyword: {twain}",
    "keyword: {}",
    "keyword: {*}",
    "author: {twain}",
    "keyword: {mark} AND keyword: {twain}",
    "keyword: {twain} AND title: {tom sawyer}",
    "keyword: {twain" }

Bodies == RawQueries \cup {BadBody}

\* Result of v4parser.ConvertToSolrWithParser on each raw query: a syntax
\* error, or the FieldValues map (field name -> list of values) it fills in.
ConvertToSolrWithParser(q) ==
  CASE q = "keyword: {twain}" ->
         [err |-> FALSE, FieldValues |-> [f \in {"keyword"} |-> <<"twain">>]]
    [] q = "keyword: {}" ->
         [err |-> FALSE, FieldValues |-> [f \in {"keyword"} |-> <<"">>]]
    [] q = "keyword: {*}" ->
         [err |-> FALSE, FieldValues |-> [f \in {"keyword"} |-> <<"*">>]]
    [] q = "author: {twain}" ->
         [err |-> FALSE, FieldValues |-> [f \in {"author"} |-> <<"twain">>]]
    [] q = "keyword: {mark} AND keyword: {twain}" ->
         [err |-> FALSE, FieldValues |-> [f \in {"keyword"} |-> <<"mark", "twain">>]]
    [] q = "keyword: {twain} AND title: {tom sawyer}" ->
         [err |-> FALSE,
          FieldValues |-> [f \in {"keyword", "title"} |->
                             IF f = "keyword" THEN <<"twain">> ELSE <<"tom sawyer">>]]
    [] OTHER ->
         [err |-> TRUE, FieldValues |-> [f \in {} |-> <<>>]]

\* Go map lookup: a missing key yields the zero value (nil slice).
Lookup(fv, k) == IF k \in DOMAIN fv THEN fv[k] ELSE <<>>

\* Variant: the blank/* test is left out.
ParseQuery_NoWildcardTest(q, oldParsed) ==
  LET conv  == ConvertToSolrWithParser(q)
      fv    == conv.FieldValues
      total == Cardinality(DOMAIN fv)
  IN  IF conv.err
        THEN [err |-> "syntax error", FieldValues |-> fv, parsedQuery |-> oldParsed]
      ELSE IF total = 1 /\ Len(Lookup(fv, "keyword")) = 1
        THEN [err |-> "", FieldValues |-> fv, parsedQuery |-> Lookup(fv, "keyword")[1]]
      ELSE [err |-> "unhandled query", FieldValues |-> fv, parsedQuery |-> oldParsed]

\* ParseQuery: returns the error text ("" for nil) and the new parsedQuery.
ParseQuery(q, oldParsed) ==
  LET conv  == ConvertToSolrWithParser(q)
      fv    == conv.FieldValues
      total == Cardinality(DOMAIN fv)
  IN  IF conv.err
        THEN [err |-> "syntax error", FieldValues |-> fv, parsedQuery |-> oldParsed]
      ELSE IF total = 1 /\ Len(Lookup(fv, "keyword")) = 1
        THEN LET keyword == Lookup(fv, "keyword")[1]
             IN  IF keyword = "" \/ keyword = "*"
                   THEN [err |-> "ignoring blank/* keyword query",
                         FieldValues |-> fv, parsedQuery |-> oldParsed]
                   ELSE [err |-> "", FieldValues |-> fv, parsedQuery |-> keyword]
      ELSE [err |-> "unhandled query", FieldValues |-> fv, parsedQuery |-> oldParsed]

\* ------------------------------------------------------------------ Solr
ScoreVals == {10, 100}

Phrases == {"Twain, Mark", "Clemens, Samuel"}

Candidates == [Phrase : Phrases, Score : ScoreVals]

Doc(p, s) == [Phrase |-> p, Score |-> s]

\* Retrievals taken from the documented scenarios, next to the enumerated
\* short ones: the 5-score example, the "twain" scenario, and a retrieval
\* long enough for one outlier to clear a sample-deviation cutoff.
FixtureDocs ==
  { << Doc("Twain, Mark", 100), Doc("Clemens, Samuel", 10), Doc("Clemens, Samuel", 10),
       Doc("Clemens, Samuel", 10), Doc("Clemens, Samuel", 10) >>,
    << Doc("Twain, Mark", 95), Doc("Twain Studies Journal", 20), Doc("American Lit", 5) >>,
    << Doc("Twain, Mark", 100), Doc("Clemens, Samuel", 10), Doc("Clemens, Samuel", 10),
       Doc("Clemens, Samuel", 10), Doc("Clemens, Samuel", 10), Doc("Clemens, Samuel", 10) >>,
    << Doc("Twain, Mark", 10), Doc("Clemens, Samuel", 10), Doc("Twain, Mark", 10) >> }

DocLists == SeqsUpTo(Candidates, MaxDocs) \cup FixtureDocs

\* What the HTTP exchange with Solr can produce for one request.
SolrFailures ==
  { [kind |-> "connect"], [kind |-> "decode"], [kind |-> "status"] }

AuthorReplies ==
  SolrFailures \cup {[kind |-> "ok", NumFound |-> Len(d), Docs |-> d] : d \in DocLists}

VerifyReplies ==
  SolrFailures \cup {[kind |-> "ok", NumFound |-> n, Docs |-> <<>>] : n \in {0, 3}}

\* SolrQuery: client.Do error, Decode error and a non-zero responseHeader
\* status all return (nil, error); otherwise the decoded response.
SolrQuery(reply) ==
  CASE reply.kind = "connect" -> [err |-> "failed to receive Solr response"]
    [] reply.kind = "decode"  -> [err |-> "failed to decode Solr response"]
    [] reply.kind = "status"  -> [err |-> "solr error status"]
    [] OTHER -> [err |-> "", NumFound |-> reply.NumFound, Docs |-> reply.Docs]

\* The request parameters built by HandleAuthorSuggestionRequest.
AuthorRequest(q) ==
  [purpose |-> "author", Q |-> q, Start |-> 0, Rows |-> 100,
   Qf |-> "cfg.qf", Fq |-> "cfg.fq", Fl |-> "cfg.fl"]

\* The request parameters built by verifySuggestionResults.
VerifyRequest(q) ==
  [purpose |-> "verify", Q |-> q, Start |-> 0, Rows |-> 0,
   Qf |-> "", Fq |-> "", Fl |-> ""]

\* ----------------------------------------------------------- statistics
RECURSIVE Insert(_, _)
Insert(x, s) ==
  IF s = <<>> THEN <<x>>
  ELSE IF x <= Head(s) THEN <<x>> \o s
  ELSE <<Head(s)>> \o Insert(x, Tail(s))

\* sort.Float64s: the tail is sorted once, then the head is inserted.
RECURSIVE SortFloat64s(_)
SortFloat64s(s) ==
  IF s = <<>> THEN <<>>
  ELSE CHOOSE r \in { Insert(Head(s), t) : t \in {SortFloat64s(Tail(s))} } : TRUE

Scores(docs) == [i \in 1..Len(docs) |-> docs[i].Score]

\* stat.Mean(scores, nil)
\* The float64 result floats.Sum(x) / n carries a rounding error: round is its
\* sign (-1 below, 0 exact, 1 above the exact quotient num/den).
Mean(x, r) == [num |-> SumSeq(x), den |-> Len(x), round |-> r]

\* The rounding errors float64 can produce for stat.Mean.  One value, and
\* two equal values (x + x and 2x / 2 are exact), give the exact mean; from
\* three values on the sum or the quotient may be rounded either way.  The
\* model's scores stand for the leading digits of float64 scores.
MeanRounding(x) ==
  IF Len(x) <= 1 \/ (Len(x) = 2 /\ x[1] = x[2]) THEN {0} ELSE {-1, 0, 1}

\* Variant: the population variance (divisor n), as stat.PopVariance.
Variance_Population(x) ==
  LET n     == Len(x)
      sum   == SumSeq(x)
      dn    == [i \in 1..n |-> n * x[i] - sum]
      ssn   == SumSeq([i \in 1..n |-> dn[i] * dn[i]])
  IN  [num |-> ssn, den |-> n * n * n]

\* stat.Variance(scores, nil): the corrected two-pass sample variance,
\* (ss - compensation^2/n) / (n - 1) with d = v - mean.  With
\* dn = n*v - sum (so d = dn/n) this is (n*ssn - compn^2) / (n^3 * (n-1));
\* for n = 1 it is 0/0.
Variance(x) ==
  LET n     == Len(x)
      sum   == SumSeq(x)
      dn    == [i \in 1..n |-> n * x[i] - sum]
      ssn   == SumSeq([i \in 1..n |-> dn[i] * dn[i]])
      compn == SumSeq(dn)
  IN  [num |-> n * ssn - compn * compn, den |-> n * n * n * (n - 1)]

\* Variant: a comparison against a NaN cutoff counts as below.
BelowCutoff_NaNBelow(score, mean, variance) ==
  IF variance.den = 0 THEN TRUE
  ELSE LET d   == score * mean.den - mean.num
           lhs == d * d * variance.den
           rhs == 4 * variance.num * mean.den * mean.den
       IN  d < 0 \/ lhs < rhs \/ (lhs = rhs /\ mean.round > 0)

\* Variant: the cutoff is mean + 1 * stddev.
BelowCutoff_OneSigma(score, mean, variance) ==
  IF variance.den = 0 THEN FALSE
  ELSE LET d   == score * mean.den - mean.num
           lhs == d * d * variance.den
           rhs == variance.num * mean.den * mean.den
       IN  d < 0 \/ lhs < rhs \/ (lhs = rhs /\ mean.round > 0)

\* doc.Score < mean + 2*math.Sqrt(variance), compared on squares.  A NaN
\* cutoff compares false.  Where the score equals the exact cutoff the
\* rounding of the mean decides: the score is below a mean rounded up.
BelowCutoff(score, mean, variance) ==
  IF variance.den = 0 THEN FALSE
  ELSE LET d   == score * mean.den - mean.num
           lhs == d * d * variance.den
           rhs == 4 * variance.num * mean.den * mean.den
       IN  d < 0 \/ lhs < rhs \/ (lhs = rhs /\ mean.round > 0)

Suggestion(v) == [Type |-> "author", Value |-> v]

\* Variant: the limit test is off by one (> instead of >=).
RECURSIVE FilterWalk_LimitOffByOne(_, _, _, _, _)
FilterWalk_LimitOffByOne(docs, i, out, st, limit) ==
  IF i > Len(docs) THEN out
  ELSE IF BelowCutoff(docs[i].Score, st.mean, st.variance) \/ Len(out) > limit
    THEN out
  ELSE FilterWalk_LimitOffByOne(docs, i + 1, Append(out, Suggestion(docs[i].Phrase)), st, limit)

\* Variant: a document below the cutoff is skipped and the walk goes on.
RECURSIVE FilterWalk_Continue(_, _, _, _, _)
FilterWalk_Continue(docs, i, out, st, limit) ==
  IF i > Len(docs) THEN out
  ELSE IF Len(out) >= limit THEN out
  ELSE IF BelowCutoff(docs[i].Score, st.mean, st.variance)
    THEN FilterWalk_Continue(docs, i + 1, out, st, limit)
  ELSE FilterWalk_Continue(docs, i + 1, Append(out, Suggestion(docs[i].Phrase)), st, limit)

\* The loop over solrRes.Response.Docs that fills res.Suggestions.
RECURSIVE FilterWalk(_, _, _, _, _)
FilterWalk(docs, i, out, st, limit) ==
  IF i > Len(docs) THEN out
  ELSE IF BelowCutoff(docs[i].Score, st.mean, st.variance) \/ Len(out) >= limit
    THEN out
  ELSE FilterWalk(docs, i + 1, Append(out, Suggestion(docs[i].Phrase)), st, limit)

\* Lines 123-138: the scores are sorted once; mean and variance are taken
\* from the sorted slice.
Stats(docs, r) ==
  CHOOSE st \in { [mean |-> Mean(scores, r), variance |-> Variance(scores)] :
                    scores \in {SortFloat64s(Scores(docs))} } : TRUE

\* ------------------------------------------------------------ AI provider
Terms == {"Twain, Mark", "Clemens, Samuel"}

AIResponse(d, s) == [DidYouMean |-> d, Suggestions |-> s]

Proposals ==
  {AIResponse("", s) : s \in SeqsUpTo(Terms, MaxTerms)}
    \cup {AIResponse("mark twain", <<"Twain, Mark">>)}

\* The text payload of a model reply is a sequence of tokens: "{" and "}",
\* "J" for well-formed members of the expected object, "X" for members that
\* do not decode into AIResponse, "p" for prose, " " for white space and the
\* markdown fence markers ("fence-json" opens, "fence" closes).
FailingTexts ==
  { <<>>,
    <<"p">>,
    <<"}", "p", "{">>,
    <<"p", "{">>,
    <<"{", "p">>,
    <<"{", "X", "}">>,
    <<"{", "J", "}", "p", "{", "J", "}">> }

ObjectTexts ==
  { <<"{", "J", "}">>,
    <<" ", "{", "J", "}", " ">>,
    <<"p", "{", "J", "}", "p">>,
    <<"fence-json", "{", "J", "}", "fence">> }

ProviderReplies ==
  { [kind |-> k, blocks |-> <<>>, proposal |-> AIResponse("", <<>>)] :
      k \in {"credentials", "do", "status", "decode"} }
    \cup { [kind |-> "resp", blocks |-> <<>>, proposal |-> AIResponse("", <<>>)] }
    \cup { [kind |-> "resp", blocks |-> <<t>>, proposal |-> AIResponse("", <<>>)] :
             t \in FailingTexts \cup {<<"{", "}">>} }
    \cup { [kind |-> "resp", blocks |-> <<t>>, proposal |-> pr] :
             t \in ObjectTexts, pr \in Proposals }

\* strings.TrimSpace
RECURSIVE TrimLeft(_)
TrimLeft(s) == IF s # <<>> /\ Head(s) = " " THEN TrimLeft(Tail(s)) ELSE s

RECURSIVE TrimRight(_)
TrimRight(s) ==
  IF s # <<>> /\ s[Len(s)] = " " THEN TrimRight(SubSeq(s, 1, Len(s) - 1)) ELSE s

TrimSpace(s) == TrimRight(TrimLeft(s))

\* strings.Index / strings.LastIndex: 0-based position, -1 when absent.
Index(s, c) ==
  IF \E i \in 1..Len(s) : s[i] = c
    THEN (CHOOSE i \in 1..Len(s) : s[i] = c /\ \A j \in 1..(i - 1) : s[j] # c) - 1
    ELSE -1

LastIndex(s, c) ==
  IF \E i \in 1..Len(s) : s[i] = c
    THEN (CHOOSE i \in 1..Len(s) : s[i] = c /\ \A j \in (i + 1)..Len(s) : s[j] # c) - 1
    ELSE -1

\* A Go slice expression s[a:b] panics unless 0 <= a <= b <= len(s).
SliceInRange(s, a, b) == 0 <= a /\ a <= b /\ b <= Len(s)

\* json.Unmarshal of the extracted span into AIResponse.
Unmarshal(span, proposal) ==
  IF span = <<"{", "J", "}">> THEN [err |-> FALSE, value |-> proposal]
  ELSE IF span = <<"{", "}">> THEN [err |-> FALSE, value |-> AIResponse("", <<>>)]
  ELSE [err |-> TRUE, value |-> AIResponse("", <<>>)]

NoResponse == AIResponse("", <<>>)

\* The text of the first content block of the reply, "" when there is none.
ExtractText(reply) == IF Len(reply.blocks) > 0 THEN reply.blocks[1] ELSE <<>>

\* The errors of lines 549 and 561.
EmptyContent == "empty content from AI provider"

NotJSON == "failed to parse generated text as JSON"

\* Variant: a reply without text is returned as an empty proposal, no error.
GetSuggestions_EmptyIsSuccess(reply) ==
  CASE reply.kind = "credentials" ->
         [outcome |-> "err", res |-> NoResponse, err |-> "failed to retrieve credentials"]
    [] reply.kind = "do" ->
         [outcome |-> "err", res |-> NoResponse, err |-> "failed to invoke bedrock"]
    [] reply.kind = "status" ->
         [outcome |-> "err", res |-> NoResponse, err |-> "bedrock returned status"]
    [] reply.kind = "decode" ->
         [outcome |-> "err", res |-> NoResponse, err |-> "failed to decode response"]
    [] OTHER ->
    LET content == ExtractText(reply)
    IN  IF content = <<>>
          THEN [outcome |-> "ok", res |-> NoResponse, err |-> ""]
        ELSE
          LET trimmed  == TrimSpace(content)
              startIdx == Index(trimmed, "{")
              endIdx   == LastIndex(trimmed, "}")
          IN  IF ~SliceInRange(trimmed, startIdx, endIdx + 1)
                THEN [outcome |-> "panic", res |-> NoResponse, err |-> ""]
              ELSE
                LET dec == Unmarshal(SubSeq(trimmed, startIdx + 1, endIdx + 1), reply.proposal)
                IN  IF dec.err
                      THEN [outcome |-> "err", res |-> NoResponse, err |-> NotJSON]
                      ELSE [outcome |-> "ok", res |-> dec.value, err |-> ""]

\* BedrockProvider.GetSuggestions, from the signed request to the decoded
\* reply.  outcome is "err" (nil, error), "ok" (&aiResponse, nil) or "panic".
GetSuggestions(reply) ==
  CASE reply.kind = "credentials" ->
         [outcome |-> "err", res |-> NoResponse, err |-> "failed to retrieve credentials"]
    [] reply.kind = "do" ->
         [outcome |-> "err", res |-> NoResponse, err |-> "failed to invoke bedrock"]
    [] reply.kind = "status" ->
         [outcome |-> "err", res |-> NoResponse, err |-> "bedrock returned status"]
    [] reply.kind = "decode" ->
         [outcome |-> "err", res |-> NoResponse, err |-> "failed to decode response"]
    [] OTHER ->
    LET content == ExtractText(reply)
    IN  IF content = <<>>
          THEN [outcome |-> "err", res |-> NoResponse, err |-> EmptyContent]
        ELSE
          LET trimmed  == TrimSpace(content)
              startIdx == Index(trimmed, "{")
              endIdx   == LastIndex(trimmed, "}")
          IN  IF ~SliceInRange(trimmed, startIdx, endIdx + 1)
                THEN [outcome |-> "panic", res |-> NoResponse, err |-> ""]
              ELSE
                LET dec == Unmarshal(SubSeq(trimmed, startIdx + 1, endIdx + 1), reply.proposal)
                IN  IF dec.err
                      THEN [outcome |-> "err", res |-> NoResponse, err |-> NotJSON]
                      ELSE [outcome |-> "ok", res |-> dec.value, err |-> ""]

\* Variant: any reply that is not an error counts as a hit.
verifySuggestionResults_CountIgnored(reply) ==
  LET r == SolrQuery(reply)
  IN  IF r.err # "" THEN TRUE ELSE r.NumFound >= 0

\* Variant: a SolrQuery error rejects the term.
verifySuggestionResults_FailClosed(reply) ==
  LET r == SolrQuery(reply)
  IN  IF r.err # "" THEN FALSE ELSE r.NumFound > 0

\* verifySuggestionResults: fail open on any SolrQuery error.
verifySuggestionResults(reply) ==
  LET r == SolrQuery(reply)
  IN  IF r.err # "" THEN TRUE ELSE r.NumFound > 0

\* ------------------------------------------------------------------ state
VARIABLES
  pc,           \* position of the request's own goroutine
  cfg,          \* ServiceContext: [Limit, AIProvider]
  verbose,      \* SuggestionContext.verbose
  req,          \* SuggestionContext.req.Query
  parser,       \* SuggestionContext.parser.FieldValues
  parseErr,     \* error text of the last ParseQuery ("" = nil)
  parsedQuery,  \* SuggestionContext.parsedQuery
  solrRes,      \* docs of the baseline retrieval, while in scope
  stats,        \* mean and variance computed by the filter, while in scope
  authorRes,    \* authorRes.Suggestions
  authorErr,    \* error text returned by HandleAuthorSuggestionRequest
  aiOutcome,    \* "none", "err", "ok" or "panic"
  aiRes,        \* the decoded AI proposal
  checks,       \* verification goroutines: index -> [pc, term, valid, solr]
  checkChan,    \* buffered channel of resultCheck
  resultsMap,   \* term -> valid
  received,     \* loop counter of the join
  res,          \* res.Suggestions of the response
  status,       \* HTTP status written (0 = none yet)
  solrLog,      \* Solr requests issued so far
  aiLog,        \* provider calls so far: query and baseline passed
  solrOutcome,  \* how the baseline retrieval ended: none, err, empty or docs
  aiReply,      \* the model reply in flight to GetSuggestions
  aiErr         \* the error GetSuggestions returned, "" for none

vars == << pc, cfg, verbose, req, parser, parseErr, parsedQuery, solrRes, stats,
           authorRes, authorErr, aiOutcome, aiRes, checks, checkChan, resultsMap,
           received, res, status, solrLog, aiLog, solrOutcome, aiReply, aiErr >>

NoStats ==
  [mean |-> [num |-> 0, den |-> 0, round |-> 0], variance |-> [num |-> 0, den |-> 0]]

NoReply == [kind |-> "none", blocks |-> <<>>, proposal |-> NoResponse]

EmptyMap == [t \in {} |-> FALSE]

Init ==
  /\ pc = "bind"
  /\ cfg \in [Limit : 0..MaxLimit, AIProvider : {"nil", "bedrock"}]
  /\ verbose \in BOOLEAN
  /\ req = ""
  /\ parser = [f \in {} |-> <<>>]
  /\ parseErr = ""
  /\ parsedQuery = ""
  /\ solrRes = <<>>
  /\ stats = NoStats
  /\ authorRes = <<>>
  /\ authorErr = ""
  /\ aiOutcome = "none"
  /\ aiRes = NoResponse
  /\ checks = <<>>
  /\ checkChan = <<>>
  /\ resultsMap = EmptyMap
  /\ received = 0
  /\ res = <<>>
  /\ status = 0
  /\ solrLog = {}
  /\ aiLog = <<>>
  /\ solrOutcome = "none"
  /\ aiReply = NoReply
  /\ aiErr = ""

\* ---------------------------------------------------------------- actions
\* Values of the []Suggestion held in authorRes.
ExistingSuggestions(a) == [i \in 1..Len(a) |-> a[i].Value]

\* SuggestionHandler up to the call of HandleSuggestionRequest: a body that
\* does not bind is answered 400 and the pipeline is not entered.
SuggestionHandler ==
  /\ pc = "bind"
  /\ \E body \in Bodies :
       IF body = BadBody
         THEN /\ status' = 400
              /\ pc' = "done"
              /\ req' = req
         ELSE /\ req' = body
              /\ pc' = "parse"
              /\ status' = status
  /\ UNCHANGED << cfg, verbose, parser, parseErr, parsedQuery, solrRes, stats, authorRes,
                  authorErr, aiOutcome, aiRes, checks, checkChan, resultsMap, received,
                  res, solrLog, aiLog, solrOutcome, aiReply, aiErr >>

\* Variant: the provider is handed the normalized term.
AIQuery_Normalized(raw, parsed) == parsed

\* Line 209: the first argument of GetSuggestions is s.req.Query.
AIQuery(raw, parsed) == raw

\* Variant: the result of ParseQuery is not tested at all.
AuthorParseQuery_Unchecked ==
  /\ pc = "parse"
  /\ LET r == ParseQuery(req, parsedQuery)
     IN  /\ parser' = r.FieldValues
         /\ parseErr' = r.err
         /\ parsedQuery' = r.parsedQuery
         /\ authorErr' = authorErr
         /\ pc' = "retrieve"
  /\ UNCHANGED << cfg, verbose, req, solrRes, stats, authorRes, aiOutcome, aiRes, checks,
                  checkChan, resultsMap, received, res, status, solrLog, aiLog,
                  solrOutcome, aiReply, aiErr >>

\* Variant: the ParseQuery error is recorded but the early return is missing.
AuthorParseQuery_NoEarlyReturn ==
  /\ pc = "parse"
  /\ LET r == ParseQuery(req, parsedQuery)
     IN  /\ parser' = r.FieldValues
         /\ parseErr' = r.err
         /\ parsedQuery' = r.parsedQuery
         /\ authorErr' = r.err
         /\ pc' = "retrieve"
  /\ UNCHANGED << cfg, verbose, req, solrRes, stats, authorRes, aiOutcome, aiRes, checks,
                  checkChan, resultsMap, received, res, status, solrLog, aiLog,
                  solrOutcome, aiReply, aiErr >>

\* HandleAuthorSuggestionRequest, lines 92-98: ParseQuery, and the early
\* return of the empty response with the error.
AuthorParseQuery ==
  /\ pc = "parse"
  /\ LET r == ParseQuery(req, parsedQuery)
     IN  /\ parser' = r.FieldValues
         /\ parseErr' = r.err
         /\ parsedQuery' = r.parsedQuery
         /\ IF r.err # ""
              THEN /\ authorErr' = r.err
                   /\ pc' = "authorDone"
              ELSE /\ authorErr' = authorErr
                   /\ pc' = "retrieve"
  /\ UNCHANGED << cfg, verbose, req, solrRes, stats, authorRes, aiOutcome, aiRes, checks,
                  checkChan, resultsMap, received, res, status, solrLog, aiLog,
                  solrOutcome, aiReply, aiErr >>

\* HandleAuthorSuggestionRequest, lines 100-121: the baseline retrieval, the
\* early return on error and the early return on an empty document list.
AuthorSolrQuery ==
  /\ pc = "retrieve"
  /\ solrLog' = solrLog \cup {AuthorRequest(parsedQuery)}
  /\ \E reply \in AuthorReplies :
       LET r == SolrQuery(reply)
       IN  IF r.err # ""
             THEN /\ authorErr' = r.err
                  /\ pc' = "authorDone"
                  /\ solrRes' = solrRes
                  /\ solrOutcome' = "err"
           ELSE IF Len(r.Docs) = 0
             THEN /\ authorErr' = authorErr
                  /\ pc' = "authorDone"
                  /\ solrRes' = solrRes
                  /\ solrOutcome' = "empty"
           ELSE /\ authorErr' = authorErr
                /\ pc' = "filter"
                /\ solrRes' = r.Docs
                /\ solrOutcome' = "docs"
  /\ UNCHANGED << cfg, verbose, req, parser, parseErr, parsedQuery, stats, authorRes,
                  aiOutcome, aiRes, checks, checkChan, resultsMap, received, res, status,
                  aiLog, aiReply, aiErr >>

\* HandleAuthorSuggestionRequest, lines 123-163: statistics, cutoff and the
\* walk over the documents.
AuthorFilter ==
  /\ pc = "filter"
  /\ \E r \in MeanRounding(Scores(solrRes)) :
       \E st \in {Stats(solrRes, r)} :
          /\ stats' = st
          /\ authorRes' = FilterWalk(solrRes, 1, <<>>, st, cfg.Limit)
  /\ pc' = "authorDone"
  /\ UNCHANGED << cfg, verbose, req, parser, parseErr, parsedQuery, solrRes, authorErr,
                  aiOutcome, aiRes, checks, checkChan, resultsMap, received, res, status,
                  solrLog, aiLog, solrOutcome, aiReply, aiErr >>

\* Variant: the copy of the baseline into the response is left out.
NoProviderSuggestions_Dropped(a) == <<>>

\* Lines 191-193: res.Suggestions = authorRes.Suggestions.
NoProviderSuggestions(a) == a

\* Variant: the error of the author step is surfaced as a failed request.
ReturnAuthors_SurfacesError ==
  /\ pc = "authorDone"
  /\ cfg.AIProvider = "nil"
  /\ res' = NoProviderSuggestions(authorRes)
  /\ status' = IF authorErr # "" THEN 500 ELSE 200
  /\ pc' = "done"
  /\ solrRes' = <<>>
  /\ stats' = NoStats
  /\ UNCHANGED << cfg, verbose, req, parser, parseErr, parsedQuery, authorRes, authorErr,
                  aiOutcome, aiRes, checks, checkChan, resultsMap, received, solrLog, aiLog,
                  solrOutcome, aiReply, aiErr >>

\* HandleSuggestionRequest, lines 188-196, and the handler's c.JSON(200).
ReturnAuthors ==
  /\ pc = "authorDone"
  /\ cfg.AIProvider = "nil"
  /\ res' = NoProviderSuggestions(authorRes)
  /\ status' = 200
  /\ pc' = "done"
  /\ solrRes' = <<>>
  /\ stats' = NoStats
  /\ UNCHANGED << cfg, verbose, req, parser, parseErr, parsedQuery, authorRes, authorErr,
                  aiOutcome, aiRes, checks, checkChan, resultsMap, received, solrLog, aiLog,
                  solrOutcome, aiReply, aiErr >>

\* Variant: the fallback returns the baseline in reverse order.
FallbackSuggestions_Reversed(a) == [i \in 1..Len(a) |-> a[Len(a) + 1 - i]]

\* Variant: a provider error returns the empty response built at line 169.
FallbackSuggestions_Empty(a) == <<>>

\* Lines 212-216: on a provider error res.Suggestions = authorRes.Suggestions.
FallbackSuggestions(a) == a

\* The goroutines started by the loop at lines 243-248, one per term.
NoSolr == [failed |-> FALSE, NumFound |-> 0]

\* What verifySuggestionResults sees of SolrQuery's return: err != nil and
\* res.Response.NumFound.
SolrSeen(reply) ==
  LET r == SolrQuery(reply)
  IN  IF r.err # "" THEN [failed |-> TRUE, NumFound |-> 0]
      ELSE [failed |-> FALSE, NumFound |-> r.NumFound]

StartChecks(terms) ==
  [i \in 1..Len(terms) |->
     [pc |-> "verify", term |-> terms[i], valid |-> FALSE, solr |-> NoSolr]]

\* HandleSuggestionRequest, lines 198-207, and GetSuggestions up to
\* client.Do: the second ParseQuery, then the request for the raw query and
\* the baseline values goes out and the model's reply comes back.
CallAIProvider ==
  /\ pc = "authorDone"
  /\ cfg.AIProvider # "nil"
  /\ LET r == ParseQuery(req, parsedQuery)
     IN  /\ parser' = r.FieldValues
         /\ parseErr' = r.err
         /\ parsedQuery' = r.parsedQuery
  /\ solrRes' = <<>>
  /\ stats' = NoStats
  /\ aiLog' = Append(aiLog, [query |-> AIQuery(req, ParseQuery(req, parsedQuery).parsedQuery),
                             existing |-> ExistingSuggestions(authorRes)])
  /\ aiReply' \in ProviderReplies
  /\ pc' = "ai"
  /\ UNCHANGED << cfg, verbose, req, authorRes, authorErr, aiOutcome, aiRes, checks,
                  checkChan, resultsMap, received, res, status, solrLog, solrOutcome,
                  aiErr >>

\* The rest of GetSuggestions and HandleSuggestionRequest, lines 209-248:
\* the reply is decoded, an error falls back to the baseline, a proposal is
\* fanned out.  A panic inside the provider unwinds the handler; gin's
\* recovery middleware answers 500.
AIProviderReturn ==
  /\ pc = "ai"
  /\ aiReply' = NoReply
  /\ LET r == GetSuggestions(aiReply)
     IN  /\ aiOutcome' = r.outcome
         /\ aiErr' = r.err
         /\ CASE r.outcome = "panic" ->
                   /\ status' = 500
                   /\ pc' = "done"
                   /\ UNCHANGED << res, aiRes, checks >>
              [] r.outcome = "err" ->
                   /\ res' = FallbackSuggestions(authorRes)
                   /\ status' = 200
                   /\ pc' = "done"
                   /\ UNCHANGED << aiRes, checks >>
              [] OTHER ->
                   /\ aiRes' = r.res
                   /\ checks' = StartChecks(r.res.Suggestions)
                   /\ pc' = "join"
                   /\ UNCHANGED << res, status >>
  /\ UNCHANGED << cfg, verbose, req, parser, parseErr, parsedQuery, solrRes, stats,
                  authorRes, authorErr, checkChan, resultsMap, received, solrLog, aiLog,
                  solrOutcome >>

\* One verification goroutine, line 245: valid := s.verifySuggestionResults(t).
VerifyCheck(i) ==
  /\ checks[i].pc = "verify"
  /\ solrLog' = solrLog \cup {VerifyRequest(checks[i].term)}
  /\ \E reply \in VerifyReplies :
       checks' = [checks EXCEPT ![i].valid = verifySuggestionResults(reply),
                                ![i].solr = SolrSeen(reply),
                                ![i].pc = "send"]
  /\ UNCHANGED << pc, cfg, verbose, req, parser, parseErr, parsedQuery, solrRes, stats,
                  authorRes, authorErr, aiOutcome, aiRes, checkChan, resultsMap, received,
                  res, status, aiLog, solrOutcome, aiReply, aiErr >>

\* Variant: the channel holds one result less than there are checks.
ChanCap_OneShort(n) == n - 1

\* Line 240: make(chan resultCheck, len(aiRes.Suggestions)).
ChanCap(n) == n

\* Variant: the goroutine also stores its result in the map itself.
SendCheck_WritesMap(i) ==
  /\ checks[i].pc = "send"
  /\ Len(checkChan) < ChanCap(Len(aiRes.Suggestions))
  /\ checkChan' = Append(checkChan, [term |-> checks[i].term, valid |-> checks[i].valid])
  /\ checks' = [checks EXCEPT ![i].pc = "done"]
  /\ resultsMap' = [t \in DOMAIN resultsMap \cup {checks[i].term} |->
                      IF t = checks[i].term THEN checks[i].valid ELSE resultsMap[t]]
  /\ UNCHANGED << pc, cfg, verbose, req, parser, parseErr, parsedQuery, solrRes, stats,
                  authorRes, authorErr, aiOutcome, aiRes, received, res,
                  status, solrLog, aiLog, solrOutcome, aiReply, aiErr >>

\* One verification goroutine, line 246: checkChan <- resultCheck{...}.  The
\* send blocks while the buffer (capacity len(aiRes.Suggestions)) is full.
SendCheck(i) ==
  /\ checks[i].pc = "send"
  /\ Len(checkChan) < ChanCap(Len(aiRes.Suggestions))
  /\ checkChan' = Append(checkChan, [term |-> checks[i].term, valid |-> checks[i].valid])
  /\ checks' = [checks EXCEPT ![i].pc = "done"]
  /\ UNCHANGED << pc, cfg, verbose, req, parser, parseErr, parsedQuery, solrRes, stats,
                  authorRes, authorErr, aiOutcome, aiRes, resultsMap, received, res,
                  status, solrLog, aiLog, solrOutcome, aiReply, aiErr >>

\* Variant: only accepted terms are entered in the map.
MapStore_OnlyValid(m, k, v) ==
  IF v THEN [t \in DOMAIN m \cup {k} |-> IF t = k THEN v ELSE m[t]] ELSE m

\* resultsMap[r.term] = r.valid
MapStore(m, k, v) == [t \in DOMAIN m \cup {k} |-> IF t = k THEN v ELSE m[t]]

\* Variant: the join loop stops one receive short.
JoinLoopDone_OneShort(i, n) == ~(i < n - 1)

\* The condition of the join loop at line 251, negated: i < len(aiRes.Suggestions).
JoinLoopDone(i, n) == ~(i < n)

\* The join loop, lines 251-254: one receive per iteration.
ReceiveCheck ==
  /\ pc = "join"
  /\ ~JoinLoopDone(received, Len(aiRes.Suggestions))
  /\ checkChan # <<>>
  /\ resultsMap' = MapStore(resultsMap, Head(checkChan).term, Head(checkChan).valid)
  /\ checkChan' = Tail(checkChan)
  /\ received' = received + 1
  /\ UNCHANGED << pc, cfg, verbose, req, parser, parseErr, parsedQuery, solrRes, stats,
                  authorRes, authorErr, aiOutcome, aiRes, checks, res, status, solrLog,
                  aiLog, solrOutcome, aiReply, aiErr >>

\* Go map read: a missing key yields false.
MapLoad(m, k) == IF k \in DOMAIN m THEN m[k] ELSE FALSE

\* Variant: the map lookup is skipped, every proposed term is accepted.
VerifiedSuggestions_Unchecked(terms, m) == [i \in 1..Len(terms) |-> Suggestion(terms[i])]

\* The loop at lines 256-261 that builds verifiedSuggestions.
RECURSIVE VerifiedSuggestions(_, _)
VerifiedSuggestions(terms, m) ==
  IF terms = <<>> THEN <<>>
  ELSE IF MapLoad(m, Head(terms))
    THEN <<Suggestion(Head(terms))>> \o VerifiedSuggestions(Tail(terms), m)
  ELSE VerifiedSuggestions(Tail(terms), m)

\* Variant: the verified terms are appended to the baseline.
FinalSuggestions_Merged(verified, baseline) == baseline \o verified

\* Line 263: res.Suggestions = verifiedSuggestions; the baseline is not used.
FinalSuggestions(verified, baseline) == verified

\* HandleSuggestionRequest, lines 256-267, and the handler's c.JSON(200).
BuildVerified ==
  /\ pc = "join"
  /\ JoinLoopDone(received, Len(aiRes.Suggestions))
  /\ res' = FinalSuggestions(VerifiedSuggestions(aiRes.Suggestions, resultsMap), authorRes)
  /\ status' = 200
  /\ pc' = "done"
  /\ UNCHANGED << cfg, verbose, req, parser, parseErr, parsedQuery, solrRes, stats,
                  authorRes, authorErr, aiOutcome, aiRes, checks, checkChan, resultsMap,
                  received, solrLog, aiLog,
                  solrOutcome, aiReply, aiErr >>

Next ==
  \/ SuggestionHandler
  \/ AuthorParseQuery
  \/ AuthorSolrQuery
  \/ AuthorFilter
  \/ ReturnAuthors
  \/ CallAIProvider
  \/ AIProviderReturn
  \/ \E i \in DOMAIN checks : VerifyCheck(i)
  \/ \E i \in DOMAIN checks : SendCheck(i)
  \/ ReceiveCheck
  \/ BuildVerified

Spec == Init /\ [][Next]_vars

\* ------------------------------------------- the statistical filter alone
\* Scores and phrases of the documents handed to the filter.
FilterScoreVals == {5, 20, 95}

FilterPhrase(i) ==
  CASE i = 1 -> "Twain, Mark"
    [] i = 2 -> "Twain Studies Journal"
    [] i = 3 -> "American Lit"
    [] OTHER -> "Clemens, Samuel"

FilterDocLists ==
  UNION { { [i \in 1..n |-> Doc(FilterPhrase(i), x[i])] : x \in [1..n -> FilterScoreVals] } :
          n \in 1..MaxFilterDocs }

FilterQuery == "keyword: {twain}"

\* HandleAuthorSuggestionRequest at line 123: the query has parsed, the
\* retrieval has returned a non-empty document list, no provider is set.
InitFilter ==
  /\ pc = "filter"
  /\ cfg \in [Limit : 0..MaxLimit, AIProvider : {"nil"}]
  /\ verbose \in BOOLEAN
  /\ req = FilterQuery
  /\ parser = ParseQuery(FilterQuery, "").FieldValues
  /\ parseErr = ""
  /\ parsedQuery = ParseQuery(FilterQuery, "").parsedQuery
  /\ solrRes \in FilterDocLists
  /\ stats = NoStats
  /\ authorRes = <<>>
  /\ authorErr = ""
  /\ aiOutcome = "none"
  /\ aiRes = NoResponse
  /\ checks = <<>>
  /\ checkChan = <<>>
  /\ resultsMap = EmptyMap
  /\ received = 0
  /\ res = <<>>
  /\ status = 0
  /\ solrLog = {AuthorRequest(ParseQuery(FilterQuery, "").parsedQuery)}
  /\ aiLog = <<>>
  /\ solrOutcome = "docs"
  /\ aiReply = NoReply
  /\ aiErr = ""

NextFilter ==
  \/ AuthorFilter
  \/ ReturnAuthors

SpecFilter == InitFilter /\ [][NextFilter]_vars

\* ------------------------------------------------------------- fairness
\* Every call returns and the Go scheduler runs every runnable goroutine:
\* a step that stays possible is eventually taken.
Fairness == WF_vars(Next)

SpecLive == Init /\ [][Next]_vars /\ Fairness

\* ------------------------------------- the provider's request on its own
\* Prompt texts are sequences of tokens: the placeholders "$QUERY" and
\* "$RESULTS", "t" for other template text, "q" for other query text.
PromptTemplates ==
  { t \in SeqsUpTo({"t", "$QUERY", "$RESULTS"}, MaxTemplateLen) :
      /\ Cardinality({i \in DOMAIN t : t[i] = "$QUERY"}) = 1
      /\ Cardinality({i \in DOMAIN t : t[i] = "$RESULTS"}) = 1 }

PromptQueries == { <<"q">>, <<"$QUERY">>, <<"$RESULTS">>, <<"q", "$RESULTS">> }

PromptBaselines == { <<>>, <<"Twain, Mark">>, <<"Twain, Mark", "Clemens, Samuel">> }

\* Model identifiers, one character per element.
ModelIds ==
  { <<"c", "l", "a", "u", "d", "e">>,
    <<"g", "e", "m", "m", "a">>,
    <<"x", ".", "G", "e", "m", "M", "A", "-", "7">>,
    <<"g", "e", "m", "a">>,
    <<"G", "E", "M", "M">> }

\* Lines 370-376: the formatted block of baseline results.
RECURSIVE NumberedLines(_, _)
NumberedLines(existing, i) ==
  IF i > Len(existing) THEN <<>>
  ELSE <<"#", existing[i], "nl">> \o NumberedLines(existing, i + 1)

ResultsString(existing) ==
  IF Len(existing) > 0
    THEN <<"Here are some author suggestions retrieved from our catalog:">>
           \o NumberedLines(existing, 1)
    ELSE <<"No author suggestions were found in our catalog.">>

\* strings.Replace(s, old, new, 1): the first occurrence only.
ReplaceFirst(str, old, new) ==
  IF \E i \in DOMAIN str : str[i] = old
    THEN LET i == CHOOSE i \in DOMAIN str :
                    str[i] = old /\ \A j \in 1..(i - 1) : str[j] # old
         IN  SubSeq(str, 1, i - 1) \o new \o SubSeq(str, i + 1, Len(str))
    ELSE str

\* Lines 379-381: the default prompt, built around the query and the block.
DefaultPrompt(query, existing) ==
  <<"You are a helpful academic librarian assistant. The user is searching for:">>
    \o query
    \o (IF Len(existing) > 0
          THEN ResultsString(existing) \o <<"Analyze the query and these suggestions.">>
          ELSE <<"No author suggestions were found in our catalog.">>)
    \o <<"instructions">>

\* Lines 378-406: the prompt; with a custom prompt $QUERY is replaced
\* first, then $RESULTS in the text that results.
BuildPrompt(query, customPrompt, existing) ==
  IF customPrompt = <<>> THEN DefaultPrompt(query, existing)
  ELSE ReplaceFirst(ReplaceFirst(customPrompt, "$QUERY", query),
                    "$RESULTS", ResultsString(existing))

\* strings.ToLower on the letters that occur in ModelIds.
ToLower(str) ==
  [i \in DOMAIN str |->
     CASE str[i] = "G" -> "g"
       [] str[i] = "E" -> "e"
       [] str[i] = "M" -> "m"
       [] str[i] = "A" -> "a"
       [] OTHER -> str[i]]

\* strings.Contains
Contains(str, sub) ==
  \E i \in 0..(Len(str) - Len(sub)) : SubSeq(str, i + 1, i + Len(sub)) = sub

Gemma == <<"g", "e", "m", "m", "a">>

SystemPrompt == <<"You are a helpful assistant that outputs JSON.">>

\* Lines 411-443: the request body in the dialect of the model.
RequestBody(modelLower, prompt) ==
  IF Contains(modelLower, Gemma)
    THEN [dialect |-> "gemma", system |-> <<>>,
          messages |-> <<[role |-> "user", content |-> SystemPrompt \o prompt]>>]
    ELSE [dialect |-> "anthropic", system |-> SystemPrompt,
          messages |-> <<[role |-> "user", content |-> prompt]>>]

\* Variant: the response shape is chosen on the identifier as configured.
ResponseShape_CaseSensitive(model, modelLower) ==
  IF Contains(model, Gemma) THEN "gemma" ELSE "anthropic"

\* Lines 486 and 532: the response shape that is decoded.
ResponseShape(model, modelLower) ==
  IF Contains(modelLower, Gemma) THEN "gemma" ELSE "anthropic"

\* GetSuggestions gets as far as sending its request.
InitPrompt ==
  /\ pc = "prompt"
  /\ cfg = [Limit |-> MaxLimit, AIProvider |-> "bedrock"]
  /\ verbose \in BOOLEAN
  /\ req = ""
  /\ parser = [f \in {} |-> <<>>]
  /\ parseErr = ""
  /\ parsedQuery = ""
  /\ solrRes = <<>>
  /\ stats = NoStats
  /\ authorRes = <<>>
  /\ authorErr = ""
  /\ aiOutcome = "none"
  /\ aiRes = NoResponse
  /\ checks = <<>>
  /\ checkChan = <<>>
  /\ resultsMap = EmptyMap
  /\ received = 0
  /\ res = <<>>
  /\ status = 0
  /\ solrLog = {}
  /\ aiLog = <<>>
  /\ solrOutcome = "none"
  /\ aiReply = NoReply
  /\ aiErr = ""

\* GetSuggestions, lines 366-443 and 486: for a model, a query, a custom
\* prompt (empty for none) and a baseline, the prompt, the request body and
\* the response shape that will be decoded.
PrepareRequest ==
  /\ pc = "prompt"
  /\ \E model \in ModelIds, query \in PromptQueries,
        customPrompt \in PromptTemplates \cup {<<>>}, existing \in PromptBaselines :
       LET modelLower == ToLower(model)
           prompt     == BuildPrompt(query, customPrompt, existing)
       IN  aiLog' = <<[model |-> model, query |-> query, customPrompt |-> customPrompt,
                       existing |-> existing, prompt |-> prompt,
                       body |-> RequestBody(modelLower, prompt),
                       shape |-> ResponseShape(model, modelLower)]>>
  /\ pc' = "sent"
  /\ UNCHANGED << cfg, verbose, req, parser, parseErr, parsedQuery, solrRes, stats,
                  authorRes, authorErr, aiOutcome, aiRes, checks, checkChan, resultsMap,
                  received, res, status, solrLog, solrOutcome, aiReply, aiErr >>

NextPrompt == PrepareRequest

SpecPrompt == InitPrompt /\ [][NextPrompt]_vars

\* ------------------------------------------------------------ properties
Done == pc = "done"

Bound == req \in RawQueries

AllAuthor(list) == \A i \in 1..Len(list) : list[i].Type = "author"

\* Indices of the proposal whose term is recorded valid in the result map.
AcceptedIdx == {i \in 1..Len(aiRes.Suggestions) : MapLoad(resultsMap, aiRes.Suggestions[i])}

\* The k-th smallest accepted index.
KthAccepted(k) ==
  CHOOSE i \in AcceptedIdx : Cardinality({j \in AcceptedIdx : j <= i}) = k

\* res is the proposal restricted to the accepted indices, order kept.
ResIsAcceptedSubsequence ==
  /\ Len(res) = Cardinality(AcceptedIdx)
  /\ \A k \in 1..Len(res) : res[k] = Suggestion(aiRes.Suggestions[KthAccepted(k)])

\* C1: with no AI provider configured the response is exactly the baseline
\* returned by HandleAuthorSuggestionRequest (same values, same order, all of
\* type "author"), and neither the provider nor a verification request is
\* ever issued.
C1_NoProviderReturnsBaseline ==
  cfg.AIProvider = "nil" =>
    /\ aiLog = <<>>
    /\ aiOutcome = "none"
    /\ checks = <<>>
    /\ \A r \in solrLog : r.purpose # "verify"
    /\ (Done /\ Bound) => /\ status = 200
                          /\ res = authorRes
                          /\ AllAuthor(res)

C1_Witness ==
  /\ cfg.AIProvider = "nil"
  /\ Done
  /\ status = 200
  /\ Len(res) = 2
  /\ res = authorRes

\* C2: when the provider call returns an error, the request is answered 200
\* with the baseline unchanged; the list is empty only if the baseline is.
C2_ProviderErrorFallsBack ==
  aiOutcome = "err" =>
    /\ Done
    /\ status = 200
    /\ res = authorRes
    /\ (res = <<>> => authorRes = <<>>)
    /\ checks = <<>>

C2_Witness ==
  /\ aiOutcome = "err"
  /\ Done
  /\ authorRes # <<>>
  /\ res = authorRes

\* C3: after a successful AI call the response is exactly the subsequence of
\* the proposal whose terms are recorded valid by the verification, in the
\* proposal's order, one "author" suggestion per occurrence; a term recorded
\* invalid does not appear; the recorded validity is the result of one of
\* that term's checks.
C3_VerifiedSubsequence ==
  (aiOutcome = "ok" /\ Done) =>
    /\ status = 200
    /\ ResIsAcceptedSubsequence
    /\ AllAuthor(res)
    /\ \A k \in 1..Len(res) : MapLoad(resultsMap, res[k].Value)
    /\ \A t \in DOMAIN resultsMap :
         \E i \in DOMAIN checks : checks[i].term = t /\ checks[i].valid = resultsMap[t]

C3_Witness ==
  /\ aiOutcome = "ok"
  /\ Done
  /\ aiRes.Suggestions = <<"Twain, Mark", "Clemens, Samuel">>
  /\ resultsMap["Twain, Mark"] = FALSE
  /\ resultsMap["Clemens, Samuel"] = TRUE
  /\ res = <<Suggestion("Clemens, Samuel")>>

\* C4: after a successful AI call the response holds only AI-proposed terms
\* recorded valid; a baseline value that was not proposed, or is recorded
\* invalid, does not appear, and no accepted term means an empty response
\* whatever the baseline.
C4_BaselineNotMerged ==
  (aiOutcome = "ok" /\ Done) =>
    /\ \A k \in 1..Len(res) :
         /\ res[k].Value \in Range(aiRes.Suggestions)
         /\ MapLoad(resultsMap, res[k].Value)
    /\ \A j \in 1..Len(authorRes) :
         (authorRes[j].Value \notin Range(aiRes.Suggestions)
            \/ ~MapLoad(resultsMap, authorRes[j].Value))
           => \A k \in 1..Len(res) : res[k].Value # authorRes[j].Value
    /\ (AcceptedIdx = {} => res = <<>>)

C4_Witness ==
  /\ aiOutcome = "ok"
  /\ Done
  /\ authorRes # <<>>
  /\ aiRes.Suggestions # <<>>
  /\ AcceptedIdx = {}
  /\ res = <<>>

RetrievalFailed == parseErr = "" /\ authorErr # ""

C7_StatusOnlyFromBinding ==
  Done =>
    IF Bound
      THEN status = 200
      ELSE status = 400 /\ solrLog = {} /\ aiLog = <<>>

\* The eligibility rule of the data model, read off the parser's output.
Eligible ==
  /\ ~ConvertToSolrWithParser(req).err
  /\ DOMAIN parser = {"keyword"}
  /\ Len(parser["keyword"]) = 1
  /\ parser["keyword"][1] \notin {"", "*"}

\* C8: ParseQuery succeeds exactly for a query with the single field
\* "keyword" holding a single value that is neither empty nor "*", and then
\* parsedQuery is that value; every other query yields an error.
C8_ParseQueryEligibility ==
  (Bound /\ pc \notin {"bind", "parse"}) =>
    /\ (parseErr = "") <=> Eligible
    /\ (parseErr = "") => parsedQuery = parser["keyword"][1]

C8_Witness ==
  /\ pc = "retrieve"
  /\ parseErr = ""
  /\ parsedQuery = "twain"

\* C9: the baseline has at most sugg.Limit elements, and each of them is a
\* retrieved candidate whose score is not below the computed cutoff.
C9_BaselineBounded ==
  (pc = "authorDone" /\ solrRes # <<>>) =>
    /\ Len(authorRes) <= cfg.Limit
    /\ Len(authorRes) <= Len(solrRes)
    /\ \A i \in 1..Len(authorRes) :
         /\ authorRes[i] = Suggestion(solrRes[i].Phrase)
         /\ ~BelowCutoff(solrRes[i].Score, stats.mean, stats.variance)

C9_Witness ==
  /\ pc = "authorDone"
  /\ cfg.Limit = 1
  /\ Len(solrRes) = 2
  /\ Len(authorRes) = 1
  /\ ~BelowCutoff(solrRes[2].Score, stats.mean, stats.variance)

SumSq(x) == SumSeq([i \in 1..Len(x) |-> x[i] * x[i]])

\* n * sum(x^2) - (sum x)^2, that is n times the sum of squared deviations.
SqDev(x) == Len(x) * SumSq(x) - SumSeq(x) * SumSeq(x)

SpecExampleScores == <<100, 10, 10, 10, 10>>

\* C10 (as stated): the variance under the cutoff is the population variance
\* SqDev / n^2, and for the scores 10, 10, 10, 10, 100 exactly the score-100
\* candidate passes.
C10_PopulationCutoff ==
  (pc = "authorDone" /\ solrRes # <<>>) =>
    LET x == Scores(solrRes)
        n == Len(x)
    IN  /\ stats.mean.num * n = SumSeq(x) * stats.mean.den
        /\ stats.variance.num * n * n = SqDev(x) * stats.variance.den
        /\ (x = SpecExampleScores /\ cfg.Limit >= 1)
             => authorRes = <<Suggestion(solrRes[1].Phrase)>>

\* score < mean + 2 * sqrt(SqDev / (n * (n - 1))), on squares.
BelowSampleCutoff(score, x) ==
  LET n == Len(x)
      d == n * score - SumSeq(x)
  IN  d < 0 \/ d * d * (n - 1) < 4 * n * SqDev(x)

\* score = mean + 2 * sqrt(SqDev / (n * (n - 1))), on squares.
AtSampleCutoff(score, x) ==
  LET n == Len(x)
      d == n * score - SumSeq(x)
  IN  d >= 0 /\ d * d * (n - 1) = 4 * n * SqDev(x)

\* C10 (amended): the cutoff is the arithmetic mean plus 2 times the sample
\* standard deviation (divisor n - 1), up to float64 rounding: no score
\* below it is kept and the walk stops only at a score below or exactly at
\* it; for a single score the variance is 0/0 and no comparison against
\* the cutoff succeeds; for the scores 10, 10, 10, 10, 100 no candidate
\* passes.
C10_SampleCutoff ==
  (pc = "authorDone" /\ solrRes # <<>>) =>
    LET x == Scores(solrRes)
        n == Len(x)
    IN  /\ stats.mean.num * n = SumSeq(x) * stats.mean.den
        /\ stats.mean.den # 0
        /\ (n = 1) <=> (stats.variance.den = 0)
        /\ stats.variance.num * n * (n - 1) = SqDev(x) * stats.variance.den
        /\ \A i \in 1..Len(authorRes) : n > 1 => ~BelowSampleCutoff(solrRes[i].Score, x)
        /\ (Len(authorRes) < Len(solrRes) /\ Len(authorRes) < cfg.Limit)
             => /\ n > 1
                /\ \/ BelowSampleCutoff(solrRes[Len(authorRes) + 1].Score, x)
                   \/ AtSampleCutoff(solrRes[Len(authorRes) + 1].Score, x)
        /\ x = SpecExampleScores => authorRes = <<>>

C10_Witness ==
  /\ pc = "authorDone"
  /\ Scores(solrRes) = SpecExampleScores
  /\ cfg.Limit >= 1
  /\ authorRes = <<>>

\* C11 (as stated): an empty candidate sequence gives the empty baseline and
\* no error; a single candidate with a limit of at least 1 is returned, the
\* cutoff being equal to the candidate's own score (variance 0).
C11_SingleCutoffIsOwnScore ==
  /\ (pc = "authorDone" /\ solrOutcome = "empty") => (authorRes = <<>> /\ authorErr = "")
  /\ (pc = "authorDone" /\ Len(solrRes) = 1 /\ cfg.Limit >= 1) =>
       /\ authorRes = <<Suggestion(solrRes[1].Phrase)>>
       /\ stats.mean.den # 0
       /\ stats.mean.num = solrRes[1].Score * stats.mean.den
       /\ stats.variance.den # 0
       /\ stats.variance.num = 0

\* C11 (amended): an empty candidate sequence gives the empty baseline and
\* no error; a single candidate with a limit of at least 1 is returned, the
\* mean being its own score and the variance of one score being 0/0, so
\* that the cutoff is NaN and the comparison score < cutoff fails.
C11_SingleCutoffIsNaN ==
  /\ (pc = "authorDone" /\ solrOutcome = "empty") => (authorRes = <<>> /\ authorErr = "")
  /\ (pc = "authorDone" /\ Len(solrRes) = 1 /\ cfg.Limit >= 1) =>
       /\ authorRes = <<Suggestion(solrRes[1].Phrase)>>
       /\ authorErr = ""
       /\ stats.mean.den # 0
       /\ stats.mean.num = solrRes[1].Score * stats.mean.den
       /\ stats.variance.den = 0

C11_Witness ==
  /\ pc = "authorDone"
  /\ Len(solrRes) = 1
  /\ cfg.Limit >= 1
  /\ authorRes = <<Suggestion(solrRes[1].Phrase)>>

\* C17: for the retrieval with scores 95, 20, 5 the baseline is empty, and
\* with no provider so is the 200 response; for any retrieval of 2 to 4
\* candidates whose scores are not all equal, every score is below
\* mean + 2 * stddev and the baseline is empty.
C17_SmallRetrievalsEmpty ==
  LET x == Scores(solrRes)
      n == Len(x)
  IN  /\ (pc = "authorDone" /\ 2 <= n /\ n <= 4 /\ \E i, j \in 1..n : x[i] # x[j]) =>
           /\ authorRes = <<>>
           /\ \A i \in 1..n : BelowSampleCutoff(x[i], x)
           /\ \A i \in 1..n : BelowCutoff(x[i], stats.mean, stats.variance)
      /\ (pc = "authorDone" /\ x = <<95, 20, 5>>) => authorRes = <<>>
      /\ (pc = "done" /\ cfg.AIProvider = "nil" /\ authorRes = <<>>) =>
           (res = <<>> /\ status = 200)

C17_Witness ==
  /\ pc = "authorDone"
  /\ Scores(solrRes) = <<95, 20, 5>>
  /\ cfg.Limit >= 1
  /\ authorRes = <<>>

\* The check of proposed term i has returned from verifySuggestionResults.
Checked(i) == checks[i].pc # "verify"

\* C12: a check whose backend request was answered without error is valid
\* exactly when NumFound > 0; every verification request asks for zero rows
\* for the term, from the start, and carries no qf and no fq.
C12_ValidIffNumFound ==
  /\ \A i \in DOMAIN checks :
       (Checked(i) /\ ~checks[i].solr.failed) =>
         (checks[i].valid <=> checks[i].solr.NumFound > 0)
  /\ \A i \in DOMAIN checks :
       Checked(i) => \E r \in solrLog : r.purpose = "verify" /\ r.Q = checks[i].term
  /\ \A r \in solrLog :
       r.purpose = "verify" => (r.Rows = 0 /\ r.Start = 0 /\ r.Qf = "" /\ r.Fq = "")

C12_Witness ==
  \E i, j \in DOMAIN checks :
    /\ Checked(i) /\ ~checks[i].solr.failed /\ checks[i].solr.NumFound > 0 /\ checks[i].valid
    /\ Checked(j) /\ ~checks[j].solr.failed /\ checks[j].solr.NumFound = 0 /\ ~checks[j].valid

\* The whole proposal, in its order, as suggestions.
WholeProposal == [i \in 1..Len(aiRes.Suggestions) |-> Suggestion(aiRes.Suggestions[i])]

\* C13: a check whose backend request failed is valid; the validity of a
\* check depends on its own reply only; a request whose checks ran is
\* answered 200; and when every check's request failed the response is the
\* whole proposal in its original order.
C13_FailOpen ==
  /\ \A i \in DOMAIN checks : (Checked(i) /\ checks[i].solr.failed) => checks[i].valid
  /\ \A i \in DOMAIN checks :
       Checked(i) => (checks[i].valid <=> (checks[i].solr.failed \/ checks[i].solr.NumFound > 0))
  /\ (Done /\ aiOutcome = "ok") => status = 200
  /\ (Done /\ aiOutcome = "ok" /\ \A i \in DOMAIN checks : checks[i].solr.failed) =>
       res = WholeProposal

C13_Witness ==
  /\ Done
  /\ aiOutcome = "ok"
  /\ Len(checks) = 2
  /\ checks[1].term # checks[2].term
  /\ \A i \in DOMAIN checks : checks[i].solr.failed
  /\ res = WholeProposal

\* C14: once the join loop has received every result, and from then on, the
\* key set of resultsMap is the set of proposed terms (one key per distinct
\* term); before that it holds only proposed terms.
C14_OneEntryPerDistinctTerm ==
  aiOutcome = "ok" =>
    /\ DOMAIN resultsMap \subseteq Range(aiRes.Suggestions)
    /\ received = Len(aiRes.Suggestions) =>
         /\ DOMAIN resultsMap = Range(aiRes.Suggestions)
         /\ Cardinality(DOMAIN resultsMap) = Cardinality(Range(aiRes.Suggestions))

C14_Witness ==
  /\ pc = "join"
  /\ Len(aiRes.Suggestions) = 2
  /\ aiRes.Suggestions[1] = aiRes.Suggestions[2]
  /\ received = 2
  /\ Cardinality(DOMAIN resultsMap) = 1

\* C15: one check is started per proposed term, in order; the response is
\* built only when a result has been received from every check, every
\* check having sent and the channel being drained; and once every result
\* has been received the join can proceed without any further event.
C15_JoinExactlyWhenAllReceived ==
  aiOutcome = "ok" =>
    /\ Len(checks) = Len(aiRes.Suggestions)
    /\ \A i \in DOMAIN checks : checks[i].term = aiRes.Suggestions[i]
    /\ received <= Cardinality({i \in DOMAIN checks : checks[i].pc = "done"})
    /\ Done =>
         /\ received = Len(checks)
         /\ \A i \in DOMAIN checks : checks[i].pc = "done"
         /\ checkChan = <<>>
    /\ (pc = "join" /\ received = Len(checks)) => ENABLED BuildVerified
    /\ (pc = "join" /\ received < Len(checks)) => ~ENABLED BuildVerified

C15_Witness ==
  /\ Done
  /\ aiOutcome = "ok"
  /\ Len(checks) = 2
  /\ received = 2

\* The provider is about to handle a model reply that carries text t.
ReplyTextIs(t) == pc = "ai" /\ aiReply.kind = "resp" /\ ExtractText(aiReply) = t

\* The orchestrator's answer to a provider error: the baseline, status 200.
FellBack ==
  /\ aiOutcome' = "err"
  /\ pc' = "done"
  /\ status' = 200
  /\ res' = authorRes
  /\ authorRes' = authorRes
  /\ checks' = <<>>

\* C19: a model reply whose extracted text is empty makes GetSuggestions
\* return the empty-content error, and the request is answered 200 with the
\* baseline.
C19_EmptyTextFallsBack ==
  [][ReplyTextIs(<<>>) => (FellBack /\ aiErr' = EmptyContent)]_vars

C19_Witness ==
  /\ Done
  /\ aiErr = EmptyContent
  /\ status = 200
  /\ authorRes # <<>>
  /\ res = authorRes

\* The text has no '{', no '}', or its last '}' comes before its first '{'.
NoObjectSpan(t) ==
  \/ Index(t, "{") = -1
  \/ LastIndex(t, "}") = -1
  \/ LastIndex(t, "}") < Index(t, "{")

\* The text from its first '{' to its last '}'.
ObjectSpan(t) == SubSeq(t, Index(t, "{") + 1, LastIndex(t, "}") + 1)

\* C20: a non-empty reply text that has no object span, or whose span does
\* not decode, makes GetSuggestions return an error value, and the request
\* is answered 200 with the baseline.
C20_NoObjectSpanIsProviderError ==
  [][(\E t \in FailingTexts \ {<<>>} :
        /\ ReplyTextIs(t)
        /\ NoObjectSpan(t) \/ Unmarshal(ObjectSpan(t), aiReply.proposal).err)
      => FellBack]_vars

\* C21: with a provider configured, every request that binds reaches the
\* provider exactly once, with the raw query text and the values of the
\* baseline; after a rejected query or a failed retrieval that baseline is
\* empty.
C21_ProviderAlwaysInvoked ==
  /\ (Bound /\ cfg.AIProvider # "nil" /\ pc \in {"ai", "join", "done"}) => Len(aiLog) = 1
  /\ cfg.AIProvider = "nil" => aiLog = <<>>
  /\ \A k \in DOMAIN aiLog :
       /\ aiLog[k].query = req
       /\ aiLog[k].existing = [i \in 1..Len(authorRes) |-> authorRes[i].Value]
       /\ (parseErr # "" \/ authorErr # "") => aiLog[k].existing = <<>>

C21_Witness ==
  /\ Done
  /\ Len(aiLog) = 1
  /\ parseErr # ""
  /\ aiLog[1].query = req
  /\ aiLog[1].query # parsedQuery
  /\ aiLog[1].existing = <<>>

\* Start 0, Parsed 1, Retrieved 2, Filtered 3, Proposed 4, Verified 5, Done 6.
Stage ==
  CASE pc \in {"bind", "parse"} -> 0
    [] pc = "retrieve" -> 1
    [] pc = "filter" -> 2
    [] pc \in {"authorDone", "ai"} -> 3
    [] pc = "join" -> IF received < Len(aiRes.Suggestions) THEN 4 ELSE 5
    [] OTHER -> 6

VerifyRequested == \E r \in solrLog : r.purpose = "verify"

AuthorRequested == \E r \in solrLog : r.purpose = "author"

\* C22: the stage of a request never decreases; no backend request is
\* issued before parsing has completed, and the baseline retrieval only for
\* a query that parsed; the provider is called only once the baseline stage
\* is over; verification requests and checks exist only after a successful
\* provider call, never without a provider or after a provider failure.
C22_StageOrder ==
  /\ [][Stage' >= Stage]_vars
  /\ [](solrLog # {} => Stage >= 1)
  /\ [](AuthorRequested => parseErr = "")
  /\ [](aiLog # <<>> => (Stage >= 3 /\ pc # "authorDone"))
  /\ []((VerifyRequested \/ checks # <<>>) => (aiOutcome = "ok" /\ Stage >= 4))
  /\ []((cfg.AIProvider = "nil" \/ aiOutcome \in {"err", "panic"}) =>
          (~VerifyRequested /\ checks = <<>>))

C22_Witness ==
  /\ Done
  /\ AuthorRequested
  /\ VerifyRequested
  /\ aiOutcome = "ok"
  /\ authorRes # <<>>

Descending(x) == \A i \in 1..(Len(x) - 1) : x[i] >= x[i + 1]

Take(s, k) == SubSeq(s, 1, IF k < Len(s) THEN k ELSE Len(s))

Suggestions(docs) == [i \in 1..Len(docs) |-> Suggestion(docs[i].Phrase)]

\* The baseline is the first Len(authorRes) documents, in order.
BaselineIsPrefix ==
  /\ Len(authorRes) <= Len(solrRes)
  /\ authorRes = Suggestions(SubSeq(solrRes, 1, Len(authorRes)))

\* C23 (as stated): for a score-descending retrieval the baseline is the
\* documents with score >= cutoff, truncated to the limit; the baseline is
\* always a prefix of the retrieval.  (score >= NaN is false.)
C23_WalkIsFilterAtLeastCutoff ==
  (pc = "authorDone" /\ solrOutcome = "docs") =>
    LET x == Scores(solrRes)
        AtLeastCutoff(d) ==
          stats.variance.den # 0 /\ ~BelowCutoff(d.Score, stats.mean, stats.variance)
    IN  /\ BaselineIsPrefix
        /\ Descending(x) =>
             authorRes = Suggestions(Take(SelectSeq(solrRes, AtLeastCutoff), cfg.Limit))

\* C23 (amended): for a score-descending retrieval the baseline is the
\* documents for which score < cutoff fails, truncated to the limit (for a
\* single document the cutoff is NaN and the test fails); the baseline is
\* always a prefix of the retrieval.
C23_WalkIsFilterNotBelowCutoff ==
  (pc = "authorDone" /\ solrOutcome = "docs") =>
    LET x == Scores(solrRes)
        NotBelowCutoff(d) == ~BelowCutoff(d.Score, stats.mean, stats.variance)
    IN  /\ BaselineIsPrefix
        /\ Descending(x) =>
             authorRes = Suggestions(Take(SelectSeq(solrRes, NotBelowCutoff), cfg.Limit))

C23_Witness ==
  /\ pc = "authorDone"
  /\ Scores(solrRes) = <<95, 5, 5, 5, 5, 5>>
  /\ cfg.Limit >= 1
  /\ authorRes = <<Suggestion(solrRes[1].Phrase)>>

AllEqual(x) == \A i, j \in 1..Len(x) : x[i] = x[j]

\* C24: when all retrieved scores are equal the cutoff is that score, every
\* candidate is at the cutoff and is included, and the baseline is the
\* first min(n, limit) candidates in retrieval order.
C24_EqualScoresAllIncluded ==
  (pc = "authorDone" /\ solrOutcome = "docs" /\ AllEqual(Scores(solrRes))) =>
    authorRes = Suggestions(Take(solrRes, cfg.Limit))

\* C25: the validity recorded for a term is the validity every check of
\* that term found, so that neither the order in which duplicate checks
\* complete nor the outcomes they observe change the entry.
C25_DuplicateChecksAgree ==
  (aiOutcome = "ok" /\ received = Len(checks)) =>
    \A i \in DOMAIN checks : resultsMap[checks[i].term] = checks[i].valid

\* A step of one of the verification goroutines.
CheckStep == pc = "join" /\ checks' # checks

CheckStepFrame ==
  /\ UNCHANGED << resultsMap, received, res, status, aiRes, authorRes >>
  /\ \E i \in DOMAIN checks :
       /\ \A j \in DOMAIN checks : j # i => checks'[j] = checks[j]
       /\ \/ checkChan' = checkChan
          \/ checkChan' = Append(checkChan, [term |-> checks[i].term,
                                             valid |-> checks[i].valid])

ChecksDone == {i \in DOMAIN checks : checks[i].pc = "done"}

\* C26: a step of a check changes that check alone and at most appends its
\* own result to the channel; it leaves the result map, the receive count,
\* the proposal, the baseline and the response alone.  The map changes
\* only in a receive of the request's goroutine, and the response is built
\* from it only when every result is in.  Every finished check has put one
\* result in the channel, which never holds more than there are checks.
C26_NoSharedWrites ==
  /\ [][CheckStep => CheckStepFrame]_vars
  /\ [][resultsMap' # resultsMap =>
         (pc = "join" /\ checks' = checks /\ received' = received + 1)]_vars
  /\ [][(pc = "join" /\ pc' = "done") =>
         (received = Len(checks) /\ checkChan = <<>> /\ resultsMap' = resultsMap)]_vars
  /\ [](Len(checkChan) <= Len(checks))
  /\ [](Len(checkChan) + received = Cardinality(ChecksDone))

C26_Witness ==
  /\ pc = "join"
  /\ Len(checks) = 2
  /\ Len(checkChan) = 1
  /\ received = 1
  /\ DOMAIN resultsMap # {}

\* C27: from the end of the baseline stage on, through the provider call
\* and its return, the baseline the orchestrator holds does not change;
\* the provider is handed its values; after a provider error the response
\* is that baseline, same content, same order.
C27_BaselineNotMutated ==
  /\ [][(pc \in {"authorDone", "ai", "join"}) => (authorRes' = authorRes)]_vars
  /\ [](\A k \in DOMAIN aiLog :
          aiLog[k].existing = [i \in 1..Len(authorRes) |-> authorRes[i].Value])
  /\ []((Done /\ aiOutcome = "err") =>
          (Len(res) = Len(authorRes) /\ \A i \in 1..Len(res) : res[i] = authorRes[i]))

C27_Witness ==
  /\ Done
  /\ aiOutcome = "err"
  /\ Len(authorRes) = 2
  /\ authorRes[1] # authorRes[2]
  /\ res = authorRes

\* The template with its $QUERY replaced by the query and its $RESULTS by
\* the results block, each placeholder of the template once.
RECURSIVE Substituted(_, _, _)
Substituted(template, query, results) ==
  IF template = <<>> THEN <<>>
  ELSE (CASE Head(template) = "$QUERY" -> query
          [] Head(template) = "$RESULTS" -> results
          [] OTHER -> <<Head(template)>>)
         \o Substituted(Tail(template), query, results)

\* C28: with a custom prompt the prompt sent is the template with its
\* $QUERY placeholder replaced by the raw query and its $RESULTS placeholder
\* by the formatted results block, whatever the query text contains.
C28_PlaceholdersReplacedOnce ==
  \A k \in DOMAIN aiLog :
    (pc = "sent" /\ aiLog[k].customPrompt # <<>>) =>
      aiLog[k].prompt = Substituted(aiLog[k].customPrompt, aiLog[k].query,
                                    ResultsString(aiLog[k].existing))

\* C29: the request body is in the Gemma dialect exactly when the
\* lower-cased model identifier contains "gemma", in the Anthropic dialect
\* otherwise, and the response is decoded in the shape of the same dialect.
C29_DialectByModel ==
  \A k \in DOMAIN aiLog :
    pc = "sent" =>
      /\ aiLog[k].body.dialect = "gemma" <=> Contains(ToLower(aiLog[k].model), Gemma)
      /\ aiLog[k].body.dialect \in {"gemma", "anthropic"}
      /\ aiLog[k].body.dialect = "anthropic" <=>
           (aiLog[k].body.system # <<>> /\ aiLog[k].body.messages[1].content = aiLog[k].prompt)
      /\ aiLog[k].shape = aiLog[k].body.dialect

C29_Witness ==
  /\ pc = "sent"
  /\ aiLog[1].model # ToLower(aiLog[1].model)
  /\ aiLog[1].body.dialect = "gemma"
  /\ aiLog[1].shape = "gemma"

\* C30: every request ends; a check that is ready to send always finds room
\* in the channel; when the response has been built from a proposal every
\* check has sent, every result has been received and the channel is
\* empty; a bound request whose provider call returned is answered 200.
C30_TerminatesNoneBlocked ==
  /\ <>Done
  /\ [](\A i \in DOMAIN checks : checks[i].pc = "send" => Len(checkChan) < Len(checks))
  /\ []((Done /\ aiOutcome = "ok") =>
          /\ \A i \in DOMAIN checks : checks[i].pc = "done"
          /\ received = Len(checks)
          /\ checkChan = <<>>)
  /\ []((Done /\ Bound /\ aiOutcome # "panic") => status = 200)

C30_Witness ==
  /\ Done
  /\ status = 200
  /\ Len(checks) = 2
  /\ \E i \in DOMAIN checks : checks[i].solr.failed
  /\ \E i \in DOMAIN checks : ~checks[i].valid

====
